---- MODULE Spec2Model ----
(***************************************************************************)
(* Model of src/app.py: the FastAPI handlers /triage, /incoming-email and  *)
(* /telegram, the in-memory session map pending_requests, and the          *)
(* retrieval-augmented reply pipeline generate_reply.                      *)
(*                                                                         *)
(* Python strings are sequences of one-character strings, so that strip(), *)
(* lower() and the substring test `"yes" in text` are computed, not        *)
(* assumed.  None is a value distinct from every string.  A dict is a      *)
(* function whose DOMAIN is the set of keys present.                       *)
(*                                                                         *)
(* The handlers are coroutines on one event loop: a handler runs without   *)
(* interruption up to the next `await` of an HTTP post, and other handlers *)
(* run while it is suspended there.  generate_reply is a plain (blocking)  *)
(* function, so everything it does happens inside one step.                *)
(***************************************************************************)
EXTENDS Integers, Sequences, FiniteSets, Bags, TLC

\* ------------------------------------------------------------------ bounds
\* Number of requests that may be in flight (suspended on an await) at once.
MaxInFlight == 2

\* ----------------------------------------------------------- Python values
None == <<"<None>">>

Truthy(v) == v # None /\ v # <<>>

\* Python `a or b`
Or(a, b) == IF Truthy(a) THEN a ELSE b

Whitespace == {" ", "\t", "\n"}

UpperChars == <<"A","B","C","D","E","F","G","H","I","J","K","L","M",
                "N","O","P","Q","R","S","T","U","V","W","X","Y","Z">>
LowerChars == <<"a","b","c","d","e","f","g","h","i","j","k","l","m",
                "n","o","p","q","r","s","t","u","v","w","x","y","z">>

LowerChar(c) ==
    IF \E i \in 1..Len(UpperChars) : UpperChars[i] = c
    THEN LowerChars[CHOOSE i \in 1..Len(UpperChars) : UpperChars[i] = c]
    ELSE c

\* str.lower()
\* Lower with the case folding left out.
Lower_AsIs(s) == s

Lower(s) == [i \in 1..Len(s) |-> LowerChar(s[i])]

SetMin(S) == CHOOSE x \in S : \A y \in S : x <= y
SetMax(S) == CHOOSE x \in S : \A y \in S : x >= y

\* str.strip()
\* Strip with the trimming left out.
Strip_AsIs(s) == s

Strip(s) ==
    LET keep == {i \in 1..Len(s) : s[i] \notin Whitespace}
    IN  IF keep = {} THEN <<>> ELSE SubSeq(s, SetMin(keep), SetMax(keep))

\* Python `sub in s`
\* Contains with its operands exchanged (`text in "yes"`).
Contains_Reversed(s, sub) ==
    \E i \in 1..(Len(sub) - Len(s) + 1) : SubSeq(sub, i, i + Len(s) - 1) = s

Contains(s, sub) ==
    \E i \in 0..(Len(s) - Len(sub)) : SubSeq(s, i + 1, i + Len(sub)) = sub

\* dict.get(key) on a dict modelled as a function over its present keys
Get(d, key) == IF key \in DOMAIN d THEN d[key] ELSE None

\* ----------------------------------------------------------------- literals
S_yes     == <<"y","e","s">>
S_no      == <<"n","o">>
S_start   == <<"/","s","t","a","r","t">>
S_unknown == <<"u","n","k","n","o","w","n">>

\* -------------------------------------------------------- derive_namespace
\* derive_namespace with the case folding left out.
derive_namespace_CaseKept(sender) ==
    LET s == Strip(Or(sender, S_unknown))
    IN  IF Truthy(s) THEN s ELSE S_unknown

derive_namespace(sender) ==
    LET s == Lower(Strip(Or(sender, S_unknown)))
    IN  IF Truthy(s) THEN s ELSE S_unknown

\* ------------------------------------------------- external collaborators
\* What the outside world answers to the calls of one generate_reply run.
\* ok = FALSE is the call raising (network error, quota, malformed answer).
ReplyTexts == { <<"S","u","r","e">>, <<"S","o","r","r","y">> }

SummaryTexts == { <<" ","s","u","m"," ">> }

\* Pinecone query responses: has_matches = FALSE is a response whose matches
\* field is null or absent; each match is reduced to its metadata dict.
QueryResponses ==
    { [has_matches |-> FALSE, matches |-> <<>>],
      [has_matches |-> TRUE, matches |-> << [summary |-> <<"o","l","d">>] >>],
      [has_matches |-> TRUE,
       matches |-> << [text |-> <<"t","x","t">>], [summary |-> <<>>],
                      [summary |-> <<"m","2">>, text |-> <<"x">>] >>] }

AllExternals ==
    [ embed_q : BOOLEAN,
      query_ok : BOOLEAN, query_resp : QueryResponses,
      chat_ok : BOOLEAN, chat_text : ReplyTexts,
      summary_ok : BOOLEAN, summary_text : SummaryTexts,
      embed_s : BOOLEAN,
      upsert_ok : BOOLEAN ]

DefaultResp == [has_matches |-> FALSE, matches |-> <<>>]
DefaultText == CHOOSE t \in ReplyTexts : TRUE

\* An answer to a call that is never made is left at a fixed value, so that
\* each distinguishable run of generate_reply is enumerated once.
Externals ==
    { e \in AllExternals :
        /\ (~e.embed_q => e.query_ok)
        /\ (~(e.embed_q /\ e.query_ok) => e.query_resp = DefaultResp)
        /\ (~e.chat_ok => e.chat_text = DefaultText /\ e.summary_ok)
        /\ (~e.summary_ok => e.embed_s)
        /\ (~(e.chat_ok /\ e.summary_ok /\ e.embed_s) => e.upsert_ok) }

\* One call to an external collaborator, as the program issues it: an OpenAI
\* or Pinecone call of generate_reply ...
Call(name, ns, text, ok) ==
    [call |-> name, ns |-> ns, text |-> text, ok |-> ok,
     to |-> <<>>, what |-> "", ref |-> <<>>]

\* ... or an HTTP post of telegram_send_message / send_to_n8n.
Post(name, to, what, text, ref) ==
    [call |-> name, ns |-> <<>>, text |-> text, ok |-> TRUE,
     to |-> to, what |-> what, ref |-> ref]

\* ------------------------------------------------------------ _get_matches
_get_matches(response) == IF response.has_matches THEN response.matches ELSE <<>>

\* str.join
RECURSIVE Join(_, _)
Join(parts, delim) ==
    IF Len(parts) = 0 THEN <<>>
    ELSE IF Len(parts) = 1 THEN parts[1]
    ELSE parts[1] \o delim \o Join(Tail(parts), delim)

SnippetDelim == <<"\n","\n","-","-","-","\n","\n">>

\* the loop of generate_reply over the matches
RECURSIVE Snippets(_)
Snippets(matches) ==
    IF Len(matches) = 0 THEN <<>>
    ELSE LET meta == matches[1]
             text == Or(Get(meta, "summary"), Or(Get(meta, "text"), <<>>))
         IN  (IF Truthy(text) THEN <<text>> ELSE <<>>) \o Snippets(Tail(matches))

\* step 1 of generate_reply: the body of the try block around embed_text and
\* index.query; failed = an exception left the body
RetrieveBody(namespace, ext) ==
    IF ~ext.embed_q
    THEN [failed |-> TRUE, memory_snippets |-> <<>>,
          calls |-> << Call("embed_text", <<>>, <<>>, FALSE) >>]
    ELSE IF ~ext.query_ok
    THEN [failed |-> TRUE, memory_snippets |-> <<>>,
          calls |-> << Call("embed_text", <<>>, <<>>, TRUE),
                       Call("index.query", namespace, <<>>, FALSE) >>]
    ELSE LET snippets == Snippets(_get_matches(ext.query_resp))
         IN  [failed |-> FALSE,
              memory_snippets |->
                  IF Len(snippets) > 0 THEN Join(snippets, SnippetDelim) ELSE <<>>,
              calls |-> << Call("embed_text", <<>>, <<>>, TRUE),
                           Call("index.query", namespace, <<>>, TRUE) >>]

\* Retrieve without the except: a failure of the body leaves generate_reply.
Retrieve_Propagates(namespace, ext) ==
    LET b == RetrieveBody(namespace, ext)
    IN  [raised |-> b.failed,
         memory_snippets |-> b.memory_snippets,
         calls |-> b.calls]

\* ... and its `except Exception: memory_snippets = ""`
Retrieve(namespace, ext) ==
    LET b == RetrieveBody(namespace, ext)
    IN  [raised |-> FALSE,
         memory_snippets |-> IF b.failed THEN <<>> ELSE b.memory_snippets,
         calls |-> b.calls]

\* step 3 of generate_reply: the body of the try block that stores the summary
WriteBackCalls(namespace, ext) ==
    IF ~ext.summary_ok
    THEN << Call("chat_summary", <<>>, <<>>, FALSE) >>
    ELSE IF ~ext.embed_s
    THEN << Call("chat_summary", <<>>, Strip(ext.summary_text), TRUE),
            Call("embed_text", <<>>, Strip(ext.summary_text), FALSE) >>
    ELSE << Call("chat_summary", <<>>, Strip(ext.summary_text), TRUE),
            Call("embed_text", <<>>, Strip(ext.summary_text), TRUE),
            Call("index.upsert", namespace, Strip(ext.summary_text), ext.upsert_ok) >>

\* WriteBack without the except: a failed call leaves generate_reply.
WriteBack_Propagates(namespace, ext) ==
    [raised |-> \E i \in DOMAIN WriteBackCalls(namespace, ext) :
                    ~WriteBackCalls(namespace, ext)[i].ok,
     calls |-> WriteBackCalls(namespace, ext)]

\* ... and its `except Exception: pass`
WriteBack(namespace, ext) ==
    [raised |-> FALSE, calls |-> WriteBackCalls(namespace, ext)]

\* decision_block of generate_reply
DecisionBlock(decision_text) ==
    IF Truthy(decision_text)
    THEN << "\nYour explicit decision / instructions:\n----------------\n" >>
         \o decision_text \o << "\n" >>
    ELSE << >>

\* generate_reply with the reply completion inside a try/except that falls
\* back to an empty reply.
generate_reply_Swallowed(subject0, body0, sender0, decision_text, ext) ==
    LET sender    == Or(sender0, S_unknown)
        namespace == derive_namespace(sender)
        r         == Retrieve(namespace, ext)
        prompt    == [sender |-> sender, subject |-> Or(subject0, <<>>),
                      body |-> Or(body0, <<>>),
                      memory_snippets |-> r.memory_snippets,
                      decision_block |-> DecisionBlock(decision_text)]
    IN  IF ~ext.chat_ok
        THEN [raised |-> FALSE, reply_text |-> <<>>, prompt |-> prompt,
              namespace |-> namespace,
              calls |-> r.calls \o << Call("chat_reply", <<>>, <<>>, FALSE) >>]
        ELSE [raised |-> FALSE, reply_text |-> ext.chat_text, prompt |-> prompt,
              namespace |-> namespace,
              calls |-> r.calls
                        \o << Call("chat_reply", <<>>, ext.chat_text, TRUE) >>
                        \o WriteBack(namespace, ext).calls]

generate_reply(subject0, body0, sender0, decision_text, ext) ==
    LET sender    == Or(sender0, S_unknown)
        body      == Or(body0, <<>>)
        subject   == Or(subject0, <<>>)
        namespace == derive_namespace(sender)
        r         == Retrieve(namespace, ext)
        prompt    == [sender |-> sender, subject |-> subject, body |-> body,
                      memory_snippets |-> r.memory_snippets,
                      decision_block |-> DecisionBlock(decision_text)]
        w         == WriteBack(namespace, ext)
    IN  IF r.raised
        THEN [raised |-> TRUE, reply_text |-> None, prompt |-> prompt,
              namespace |-> namespace, calls |-> r.calls]
        ELSE IF ~ext.chat_ok
        THEN [raised |-> TRUE, reply_text |-> None, prompt |-> prompt,
              namespace |-> namespace,
              calls |-> r.calls \o << Call("chat_reply", <<>>, <<>>, FALSE) >>]
        ELSE [raised |-> w.raised,
              reply_text |-> IF w.raised THEN None ELSE ext.chat_text,
              prompt |-> prompt,
              namespace |-> namespace,
              calls |-> r.calls
                        \o << Call("chat_reply", <<>>, ext.chat_text, TRUE) >>
                        \o w.calls]

\* No generate_reply ran in a step.
NoGen ==
    [raised |-> FALSE, reply_text |-> None,
     prompt |-> [sender |-> <<>>, subject |-> <<>>, body |-> <<>>,
                 memory_snippets |-> <<>>, decision_block |-> <<>>],
     namespace |-> <<>>, calls |-> <<>>]

\* ------------------------------------------------------------------ inputs
ChatIds == { <<"1">>, <<"2">> }

\* Operator chat texts (message.text); None is a message without text.
T_yes      == <<"y","e","s">>
T_no       == <<"n","o">>
T_nothanks == <<" ","N","o"," ","t","h","a","n","k","s">>
T_3pm      == <<"3","p","m">>
T_start    == <<"/","S","T","A","R","T"," ">>
T_yesorno  == <<"Y","e","s"," ","o","r"," ","n","o">>
T_empty    == <<>>

Texts == { T_yes, T_no, T_nothanks, T_3pm, T_start, T_yesorno, T_empty, None }

\* Telegram updates: has_message = FALSE is an update with neither "message"
\* nor "edited_message".
Updates ==
    [ has_message : {TRUE}, chat_id : { <<"1">> }, text : Texts ]
    \cup [ has_message : {TRUE}, chat_id : { <<"2">> }, text : {T_yes, T_start} ]
    \cup { [has_message |-> FALSE, chat_id |-> <<"1">>, text |-> None] }

\* JSON bodies n8n posts to /incoming-email, as dicts.
EmailPayloads ==
    { [from_email |-> <<"b","o","b","@","x">>, subject |-> <<"S","y","n","c">>,
       body_text |-> <<"T","u","e","?">>, message_id |-> <<"m","1">>,
       proposed_time |-> <<"T","u","e">>],
      [from |-> <<" ","A","l","@","X"," ">>, body |-> <<"h","i">>,
       messageId |-> <<"m","2">>] }

\* JSON bodies posted to /triage.
TriagePayloads ==
    { [subject |-> <<"S","y","n","c">>, body_text |-> <<"T","u","e","?">>,
       from_email |-> <<" ","A","l","@","X"," ">>,
       decision |-> <<"d","e","c","l","i","n","e">>],
      [subject |-> <<>>] }

\* JSON bodies posted to /triage that differ in their sender: an address with
\* blanks and capitals, blanks only, the empty string, null, and none.
SenderPayloads ==
    { [from_email |-> <<" ","A","l","@","X"," ">>, body_text |-> <<"h","i">>],
      [from_email |-> <<" "," ">>],
      [from_email |-> <<>>],
      [from_email |-> None],
      [subject |-> <<"S","y","n","c">>] }

\* ------------------------------------------------------------------- state
VARIABLES
    TELEGRAM_API_URL,        \* TRUE iff TELEGRAM_BOT_TOKEN is set
    N8N_SEND_EMAIL_URL,      \* TRUE iff N8N_SEND_EMAIL_URL is set
    TELEGRAM_OWNER_CHAT_ID,  \* the owner's chat id, or None
    pending_requests,        \* dict: chat id -> session
    handlers,                \* bag of the handlers suspended on an await
    last                     \* what the step just taken did (observation)

config == << TELEGRAM_API_URL, N8N_SEND_EMAIL_URL, TELEGRAM_OWNER_CHAT_ID >>
vars == << TELEGRAM_API_URL, N8N_SEND_EMAIL_URL, TELEGRAM_OWNER_CHAT_ID,
           pending_requests, handlers, last >>

NoEmail == [from_email |-> <<>>, subject |-> <<>>, body_text |-> <<>>,
            message_id |-> None]

NoDecision == [type |-> "", time |-> None]

\* No telegram_webhook / incoming_email / triage step was taken yet.
NoStep ==
    [step |-> "init", op |-> "", outcome |-> "", response |-> "",
     chat_id |-> <<>>, has_message |-> FALSE, text_raw |-> <<>>,
     seen |-> "", trail |-> <<>>, decision |-> NoDecision,
     email |-> NoEmail, final_body |-> <<>>, gen_ran |-> FALSE,
     gen |-> NoGen, calls |-> <<>>, sent |-> 0, dispatched |-> 0,
     removed |-> {}]

Init ==
    /\ TELEGRAM_API_URL \in BOOLEAN
    /\ N8N_SEND_EMAIL_URL \in BOOLEAN
    /\ TELEGRAM_OWNER_CHAT_ID \in {None, <<"1">>}
    /\ pending_requests = << >>
    /\ handlers = EmptyBag
    /\ last = NoStep

\* ------------------------------------------------------ Telegram helpers
\* What is left of a handler's code is a list of these: a post to await, or
\* the removal of the session.  Of a chat message, `what` names its fixed
\* wording and `text` is the part of it that varies.
SendItem(chat_id, what, text) ==
    [do |-> "telegram_send_message", to |-> chat_id, what |-> what,
     text |-> text, ref |-> <<>>]

N8nItem(email, final_body) ==
    [do |-> "send_to_n8n", to |-> Get(email, "from_email"), what |-> "dispatch",
     text |-> final_body, ref |-> Get(email, "message_id")]

PopItem ==
    [do |-> "pop", to |-> <<>>, what |-> "", text |-> <<>>, ref |-> <<>>]

\* Pop with the removal left out.
Pop_Keep(store, chat_id) == store

\* pending_requests.pop(chat_id, None)
Pop(store, chat_id) == [k \in DOMAIN store \ {chat_id} |-> store[k]]

\* `if not TELEGRAM_API_URL: return` / `if not N8N_SEND_EMAIL_URL: return`
Configured(item) ==
    IF item.do = "telegram_send_message" THEN TELEGRAM_API_URL
    ELSE N8N_SEND_EMAIL_URL

\* The handler after it issued the post `item` and suspended on it; sent and
\* dispatched count the posts it issued (history).
Suspend(h, item) ==
    [h EXCEPT !.todo = Tail(h.todo),
              !.sent = IF item.do = "telegram_send_message" THEN @ + 1 ELSE @,
              !.dispatched = IF item.do = "send_to_n8n" THEN @ + 1 ELSE @]

\* Runs a handler from where it stands to its next suspension (a post that is
\* issued and awaited) or to its return; removed collects the chat ids popped.
RECURSIVE Run(_, _, _)
Run(h, store, removed) ==
    IF Len(h.todo) = 0
    THEN [h |-> h, store |-> store, outcome |-> "returned",
          removed |-> removed, issued |-> <<>>]
    ELSE LET item == Head(h.todo)
             rest == [h EXCEPT !.todo = Tail(h.todo)]
         IN  IF item.do = "pop"
             THEN Run(rest, Pop(store, h.chat_id), removed \cup {h.chat_id})
             ELSE IF ~Configured(item)
             THEN Run(rest, store, removed)
             ELSE [h |-> Suspend(h, item), store |-> store,
                   outcome |-> "suspended", removed |-> removed,
                   issued |-> << Post(item.do, item.to, item.what,
                                      item.text, item.ref) >>]

\* ------------------------------------------------- handle_final_decision
Disclosure == << "\n", "\n", "-", "-", "-", "\n",
                 "This response was generated with the help of AI under my authorization and supervision." >>

\* DecisionText with the branch for "decline" missing.
DecisionText_NoDecline(decision) ==
    LET decision_type == decision.type
        time_str      == decision.time
    IN  IF decision_type = "accept"
        THEN << "I confirm that I am available for this meeting at the proposed time." >>
        ELSE IF decision_type = "accept_with_time"
        THEN << "I am available for this meeting at: " >> \o time_str \o << "." >>
        ELSE IF decision_type = "reschedule"
        THEN << "I am not available at the proposed time. Please request to reschedule the meeting to: " >>
             \o time_str \o << "." >>
        ELSE << >>

DecisionText(decision) ==
    LET decision_type == decision.type
        time_str      == decision.time
    IN  IF decision_type = "accept"
        THEN << "I confirm that I am available for this meeting at the proposed time." >>
        ELSE IF decision_type = "accept_with_time"
        THEN << "I am available for this meeting at: " >> \o time_str \o << "." >>
        ELSE IF decision_type = "reschedule"
        THEN << "I am not available at the proposed time. Please request to reschedule the meeting to: " >>
             \o time_str \o << "." >>
        ELSE IF decision_type = "decline"
        THEN << "I am not available and would like to decline this meeting." >>
        ELSE << >>

\* handle_final_decision with send_to_n8n awaited before telegram_send_message.
handle_final_decision_DispatchFirst(chat_id, session, decision, ext) ==
    LET email == session.email
    IN  CHOOSE f \in
          { IF g.raised
            THEN [raised |-> TRUE, gen |-> g, final_body |-> <<>>, todo |-> <<>>]
            ELSE [raised |-> FALSE, gen |-> g,
                  final_body |-> g.reply_text \o Disclosure,
                  todo |-> << N8nItem(email, g.reply_text \o Disclosure),
                              SendItem(chat_id, "final",
                                       g.reply_text \o Disclosure) >>]
            : g \in { generate_reply(Get(email, "subject"),
                                     Get(email, "body_text"),
                                     Get(email, "from_email"),
                                     DecisionText(decision), ext) } } : TRUE

\* handle_final_decision up to its first await: the reply is generated, then
\* the notification and the dispatch are what is left to do.
handle_final_decision(chat_id, session, decision, ext) ==
    LET email == session.email
    IN  CHOOSE f \in
          { IF g.raised
            THEN [raised |-> TRUE, gen |-> g, final_body |-> <<>>, todo |-> <<>>]
            ELSE [raised |-> FALSE, gen |-> g,
                  final_body |-> g.reply_text \o Disclosure,
                  todo |-> << SendItem(chat_id, "final",
                                       g.reply_text \o Disclosure),
                              N8nItem(email, g.reply_text \o Disclosure) >>]
            : g \in { generate_reply(Get(email, "subject"),
                                     Get(email, "body_text"),
                                     Get(email, "from_email"),
                                     DecisionText(decision), ext) } } : TRUE

\* -------------------------------------------------------- telegram_webhook
\* What a handler does before its first await: the new session map, the rest
\* of the handler (todo), and what generate_reply did if it ran.  A plan with
\* final = TRUE is a branch that goes on to handle_final_decision.
Plan(store, todo, seen, trail, decision, email, final_body, gen_ran, gen, raised) ==
    [store |-> store, todo |-> todo, seen |-> seen, trail |-> trail,
     decision |-> decision, email |-> email, final_body |-> final_body,
     gen_ran |-> gen_ran, gen |-> gen, raised |-> raised, final |-> FALSE]

\* Reply that opens a session for a chat that has none.
Reply_Creating(store, chat_id, what, text, seen, trail) ==
    Plan((chat_id :> [email |-> NoEmail, state |-> "awaiting_availability",
                      trail |-> <<>>, proposed_time_received |-> None])
         @@ store,
         << SendItem(chat_id, what, text) >>, seen, trail,
         NoDecision, NoEmail, <<>>, FALSE, NoGen, FALSE)

Reply(store, chat_id, what, text, seen, trail) ==
    Plan(store, << SendItem(chat_id, what, text) >>, seen, trail,
         NoDecision, NoEmail, <<>>, FALSE, NoGen, FALSE)

\* SetState with the assignment left out.
SetState_Forgotten(store, chat_id, state) == store

\* session["state"] = state
SetState(store, chat_id, state) ==
    [store EXCEPT ![chat_id].state = state]

\* The session's dialogue so far: the operator texts that moved it from one
\* state to the next (history, not read by the program).
Moved(store, chat_id, text_raw) ==
    [store EXCEPT ![chat_id].trail =
        Append(@, [state |-> store[chat_id].state, text |-> text_raw])]

\* Final that stores one terminal tag in place of the finalizing tag.
Final_Done(store, chat_id, tag, decision) ==
    [Plan(SetState(store, chat_id, "done"), <<>>, store[chat_id].state,
          store[chat_id].trail, decision, store[chat_id].email, <<>>,
          FALSE, NoGen, FALSE)
     EXCEPT !.final = TRUE]

\* Final that leaves the state tag as it is.
Final_KeepsTag(store, chat_id, tag, decision) ==
    [Plan(store, <<>>, store[chat_id].state,
          store[chat_id].trail, decision, store[chat_id].email, <<>>,
          FALSE, NoGen, FALSE)
     EXCEPT !.final = TRUE]

\* session["state"] = tag, with handle_final_decision(chat_id, session,
\* decision) and the pop still to come
Final(store, chat_id, tag, decision) ==
    [Plan(SetState(store, chat_id, tag), <<>>, store[chat_id].state,
          store[chat_id].trail, decision, store[chat_id].email, <<>>,
          FALSE, NoGen, FALSE)
     EXCEPT !.final = TRUE]

\* The branches of telegram_webhook.
Branch(store, update) ==
    LET chat_id  == update.chat_id
        text_raw == Or(update.text, <<>>)
        text     == Lower(Strip(text_raw))
    IN  IF ~update.has_message
        THEN Plan(store, <<>>, "", <<>>, NoDecision, NoEmail, <<>>,
                  FALSE, NoGen, FALSE)
        ELSE IF text = S_start
        THEN Reply(store, chat_id, "start", chat_id, "", <<>>)
        ELSE IF chat_id \notin DOMAIN store
        THEN Reply(store, chat_id, "no_active", <<>>, "none", <<>>)
        ELSE
        LET session == store[chat_id]
            state   == session.state
            trail   == session.trail
            moved   == Moved(store, chat_id, text_raw)
        IN  IF state = "awaiting_availability"
            THEN IF Contains(text, S_yes)
                 THEN IF ~Truthy(Get(session.email, "proposed_time"))
                      THEN Reply(SetState(moved, chat_id, "awaiting_time"),
                                 chat_id, "ask_time", <<>>, state, trail)
                      ELSE Final(store, chat_id, "finalizing_accept",
                                 [type |-> "accept", time |-> None])
                 ELSE IF Contains(text, S_no)
                 THEN Reply(SetState(moved, chat_id, "awaiting_reschedule_confirm"),
                            chat_id, "ask_reschedule", <<>>, state, trail)
                 ELSE Reply(store, chat_id, "reprompt_availability", <<>>,
                            state, trail)
            ELSE IF state = "awaiting_time"
            THEN Final(store, chat_id, "finalizing_accept",
                       [type |-> "accept_with_time", time |-> Strip(text_raw)])
            ELSE IF state = "awaiting_reschedule_confirm"
            THEN IF Contains(text, S_yes)
                 THEN Reply(SetState(moved, chat_id, "awaiting_reschedule_time"),
                            chat_id, "ask_new_time", <<>>, state, trail)
                 ELSE IF Contains(text, S_no)
                 THEN Final(store, chat_id, "finalizing_decline",
                            [type |-> "decline", time |-> None])
                 ELSE Reply(store, chat_id, "reprompt_confirm", <<>>, state, trail)
            ELSE IF state = "awaiting_reschedule_time"
            THEN Final(store, chat_id, "finalizing_reschedule",
                       [type |-> "reschedule", time |-> Strip(text_raw)])
            ELSE Plan(store, <<>>, state, trail, NoDecision, NoEmail, <<>>,
                      FALSE, NoGen, FALSE)

\* await handle_final_decision(chat_id, session, decision);
\* pending_requests.pop(chat_id, None)
Finalize(b, chat_id, ext) ==
    CHOOSE p \in
      { [b EXCEPT !.todo = IF f.raised THEN <<>>
                           ELSE f.todo \o << PopItem >>,
                  !.final_body = f.final_body, !.gen_ran = TRUE,
                  !.gen = f.gen, !.raised = f.raised]
        : f \in { handle_final_decision(chat_id, [email |-> b.email],
                                        b.decision, ext) } } : TRUE

telegram_webhook(store, update, ext) ==
    CHOOSE p \in
      { IF b.final THEN Finalize(b, update.chat_id, ext) ELSE b
        : b \in { Branch(store, update) } } : TRUE

\* TRUE iff this update makes telegram_webhook call generate_reply
CallsGenerateReply(store, update) ==
    /\ Branch(store, update).final

\* The runs of generate_reply the interleaved handlers are explored with:
\* retrieval works (with a match) or its embedding fails; the reply completion
\* fails or answers; the write-back works or fails at any of its three calls.
FlowExternals ==
    { e \in Externals :
        /\ (e.embed_q => e.query_ok /\ e.query_resp.has_matches
                          /\ Len(e.query_resp.matches) = 1)
        /\ e.chat_text = DefaultText }

\* ... and the two runs /triage is explored with beside them.
TriageExternals ==
    { e \in FlowExternals : e.embed_q /\ e.summary_ok /\ e.embed_s /\ e.upsert_ok }

AnyExternal == CHOOSE e \in FlowExternals : TRUE

\* Admission of a new request: any number of handlers up to MaxInFlight may be
\* suspended (Concurrent), or requests are served one at a time (OneAtATime),
\* or one at a time and while no session is stored (Quiet).
Concurrent == BagCardinality(handlers) < MaxInFlight
OneAtATime == handlers = EmptyBag
Quiet      == OneAtATime /\ DOMAIN pending_requests = {}

\* The observation of a step that started a handler.
Started(op, chat_id, has_message, text_raw, p, r, response) ==
    [step |-> "start", op |-> op,
     outcome |-> IF p.raised THEN "raised" ELSE r.outcome,
     response |-> IF p.raised THEN "500"
                  ELSE IF r.outcome = "returned" THEN response ELSE "",
     chat_id |-> chat_id, has_message |-> has_message, text_raw |-> text_raw,
     seen |-> p.seen, trail |-> p.trail, decision |-> p.decision,
     email |-> p.email, final_body |-> p.final_body, gen_ran |-> p.gen_ran,
     gen |-> p.gen,
     calls |-> p.gen.calls \o r.issued,
     sent |-> r.h.sent, dispatched |-> r.h.dispatched,
     removed |-> r.removed]

\* Starts a handler whose code up to the first await is plan p.
Start(op, chat_id, has_message, text_raw, p, response) ==
    \E r \in { Run([op |-> op, chat_id |-> chat_id,
                    final_body |-> p.final_body, todo |-> p.todo,
                    sent |-> 0, dispatched |-> 0], p.store, {}) } :
        /\ pending_requests' = r.store
        /\ handlers' = IF r.outcome = "suspended"
                       THEN handlers (+) SetToBag({r.h})
                       ELSE handlers
        /\ last' = Started(op, chat_id, has_message, text_raw, p, r, response)
        /\ UNCHANGED config

TelegramWebhook(update, externals, admitted) ==
    /\ admitted
    /\ \E ext \in (IF CallsGenerateReply(pending_requests, update)
                   THEN externals ELSE {AnyExternal}) :
          \E p \in { telegram_webhook(pending_requests, update, ext) } :
              Start("telegram", update.chat_id, update.has_message,
                    Or(update.text, <<>>), p, "ok")

\* ---------------------------------------------------------- incoming_email
\* dict.get(key, default)
GetD(d, key, default) == IF key \in DOMAIN d THEN d[key] ELSE default

PreviewLen == 400

Preview(body_text) ==
    SubSeq(Or(body_text, <<>>), 1,
           IF Len(Or(body_text, <<>>)) < PreviewLen
           THEN Len(Or(body_text, <<>>)) ELSE PreviewLen)

BuildEmail(data) ==
    [from_email |-> Or(Get(data, "from_email"), Or(Get(data, "from"), <<>>)),
     subject    |-> Or(Get(data, "subject"), <<>>),
     body_text  |-> Or(Get(data, "body_text"), Or(Get(data, "body"), <<>>)),
     message_id |-> Or(Get(data, "message_id"), Get(data, "messageId"))]

\* Put that keeps a session that is already stored (setdefault).
Put_KeepExisting(store, chat_id, email) ==
    store
    @@ (chat_id :> [email |-> email, state |-> "awaiting_availability",
                    trail |-> <<>>, proposed_time_received |-> None])

\* pending_requests[chat_id] = {"email": email, "state": "awaiting_availability"}
Put(store, chat_id, email) ==
    (chat_id :> [email |-> email, state |-> "awaiting_availability",
                 trail |-> <<>>, proposed_time_received |-> None])
    @@ store

\* The proposed time the inbound event of the session carried (history, not
\* read by the program: the email dict is built without it).
Received(store, chat_id, data) ==
    [store EXCEPT ![chat_id].proposed_time_received = Get(data, "proposed_time")]

\* incoming_email that also answers the sender at once.
incoming_email_AutoReply(store, data) ==
    LET email   == BuildEmail(data)
        chat_id == TELEGRAM_OWNER_CHAT_ID
        seen    == IF chat_id \in DOMAIN store THEN store[chat_id].state
                   ELSE "none"
    IN  IF ~Truthy(chat_id)
        THEN Plan(store, <<>>, seen, <<>>, NoDecision, email, <<>>,
                  FALSE, NoGen, FALSE)
        ELSE Plan(Put(store, chat_id, email),
                  << SendItem(chat_id, "new_email", Preview(email.body_text)),
                     N8nItem(email, <<>>) >>,
                  seen, <<>>, NoDecision, email, <<>>, FALSE, NoGen, FALSE)

incoming_email(store, data) ==
    LET email   == BuildEmail(data)
        chat_id == TELEGRAM_OWNER_CHAT_ID
        seen    == IF chat_id \in DOMAIN store THEN store[chat_id].state
                   ELSE "none"
    IN  IF ~Truthy(chat_id)
        THEN Plan(store, <<>>, seen, <<>>, NoDecision, email, <<>>,
                  FALSE, NoGen, FALSE)
        ELSE Plan(Received(Put(store, chat_id, email), chat_id, data),
                  << SendItem(chat_id, "new_email", Preview(email.body_text)) >>,
                  seen, <<>>, NoDecision, email, <<>>, FALSE, NoGen, FALSE)

IncomingEmail(data, admitted) ==
    /\ admitted
    /\ \E p \in { incoming_email(pending_requests, data) } :
          Start("incoming_email", Or(TELEGRAM_OWNER_CHAT_ID, <<>>), FALSE, <<>>,
                p, IF Truthy(TELEGRAM_OWNER_CHAT_ID) THEN "ok"
                   ELSE "owner_not_set")

\* ------------------------------------------------------------------ triage
triage(store, data, ext) ==
    LET subject  == Or(GetD(data, "subject", <<>>), <<>>)
        body     == Or(GetD(data, "body_text", <<>>), <<>>)
        sender   == Or(GetD(data, "from_email", S_unknown), S_unknown)
        decision == Or(Get(data, "decision"), None)
    IN  CHOOSE p \in
          { Plan(store, <<>>, "", <<>>, NoDecision, NoEmail, <<>>, TRUE, g, g.raised)
            : g \in { generate_reply(subject, body, sender, decision, ext) } }
          : TRUE

Triage(data, externals, admitted) ==
    /\ admitted
    /\ \E ext \in externals :
          \E p \in { triage(pending_requests, data, ext) } :
              Start("triage", <<>>, FALSE, <<>>, p, "reply_text")

\* ------------------------------------------------------------------ resume
\* The observation of a step that resumed handler h: the post it awaited
\* raised (an httpx error leaves the handler, the rest is not done) ...
Raised(h) ==
    [step |-> "resume", op |-> h.op, outcome |-> "raised", response |-> "500",
     chat_id |-> h.chat_id, has_message |-> FALSE, text_raw |-> <<>>,
     seen |-> "", trail |-> <<>>, decision |-> NoDecision,
     email |-> NoEmail, final_body |-> h.final_body, gen_ran |-> FALSE,
     gen |-> NoGen, calls |-> <<>>, sent |-> h.sent,
     dispatched |-> h.dispatched, removed |-> {}]

\* ... or returned, and the handler went on to its next await or its return.
Resumed(h, r) ==
    [step |-> "resume", op |-> h.op, outcome |-> r.outcome,
     response |-> IF r.outcome = "returned" THEN "ok" ELSE "",
     chat_id |-> h.chat_id, has_message |-> FALSE, text_raw |-> <<>>,
     seen |-> "", trail |-> <<>>, decision |-> NoDecision,
     email |-> NoEmail, final_body |-> h.final_body, gen_ran |-> FALSE,
     gen |-> NoGen, calls |-> r.issued, sent |-> r.h.sent,
     dispatched |-> r.h.dispatched, removed |-> r.removed]

Resume(h, ok) ==
    \E r \in { Run(h, pending_requests, {}) } :
        /\ BagIn(h, handlers)
        /\ IF ok
           THEN /\ pending_requests' = r.store
                /\ handlers' = IF r.outcome = "suspended"
                               THEN (handlers (-) SetToBag({h})) (+) SetToBag({r.h})
                               ELSE handlers (-) SetToBag({h})
                /\ last' = Resumed(h, r)
           ELSE /\ pending_requests' = pending_requests
                /\ handlers' = handlers (-) SetToBag({h})
                /\ last' = Raised(h)
        /\ UNCHANGED config

\* -------------------------------------------------------------------- spec
\* The handlers interleaved at their awaits.
Next ==
    \/ \E data \in EmailPayloads : IncomingEmail(data, Concurrent)
    \/ \E update \in Updates : TelegramWebhook(update, FlowExternals, Concurrent)
    \/ \E data \in TriagePayloads : Triage(data, TriageExternals, Concurrent)
    \/ \E h \in BagToSet(handlers), ok \in BOOLEAN : Resume(h, ok)

Spec == Init /\ [][Next]_vars

\* The requests served one at a time, /triage (which neither reads nor writes
\* the sessions) exploring generate_reply with every answer of its
\* collaborators.
NextReply ==
    \/ \E data \in EmailPayloads : IncomingEmail(data, OneAtATime)
    \/ \E update \in Updates : TelegramWebhook(update, FlowExternals, OneAtATime)
    \/ \E data \in TriagePayloads : Triage(data, Externals, Quiet)
    \/ \E h \in BagToSet(handlers), ok \in BOOLEAN : Resume(h, ok)

SpecReply == Init /\ [][NextReply]_vars

\* ================================================================ properties
\* What the step just taken issued, read off its observation.
CallAt(name) == { i \in DOMAIN last.calls : last.calls[i].call = name }
Issued(name) == CallAt(name) # {}
PostsAt      == CallAt("telegram_send_message") \cup CallAt("send_to_n8n")
Collaborators == DOMAIN last.calls \ PostsAt
DecisionKinds == {"accept", "accept_with_time", "reschedule", "decline"}

\* A telegram handler that went through handle_final_decision without an
\* error and has now returned.
FinalizeReturned ==
    /\ last.op = "telegram"
    /\ last.outcome = "returned"
    /\ last.final_body # <<>>

\* C1: when a finalize sequence started by an operator message has run to its
\* end without an error (reply composed, notification and dispatch issued and
\* answered), the handler has removed the session of that chat id and the
\* store holds no session for it, whatever the decision was.
C1_SessionRemovedAfterFinalize ==
    FinalizeReturned =>
        /\ last.removed = {last.chat_id}
        /\ last.chat_id \notin DOMAIN pending_requests

C1_Witness ==
    /\ FinalizeReturned
    /\ last.step = "resume"
    /\ last.sent = 1
    /\ last.dispatched = 1
    /\ last.removed = {last.chat_id}
    /\ last.chat_id \notin DOMAIN pending_requests

C3_CompletionFailurePropagates ==
    [][ ( /\ last'.step = "start"
          /\ last'.op = "telegram"
          /\ last'.gen_ran
          /\ \E i \in DOMAIN last'.calls :
                last'.calls[i].call = "chat_reply" /\ ~last'.calls[i].ok )
        => ( /\ last'.outcome = "raised"
             /\ last'.response = "500"
             /\ last'.gen.raised
             /\ \A i \in DOMAIN last'.calls :
                   last'.calls[i].call
                       \notin {"telegram_send_message", "send_to_n8n"}
             /\ last'.sent = 0
             /\ last'.dispatched = 0
             /\ last'.removed = {}
             /\ handlers' = handlers ) ]_vars

C3_Witness ==
    /\ last.step = "start"
    /\ last.op = "telegram"
    /\ last.gen_ran
    /\ \E i \in CallAt("chat_reply") : ~last.calls[i].ok
    /\ last.outcome = "raised"
    /\ TELEGRAM_API_URL
    /\ N8N_SEND_EMAIL_URL
    /\ ~Issued("telegram_send_message")
    /\ ~Issued("send_to_n8n")

\* C4 as the specification states it (with a chat endpoint configured): every
\* chat update that carries a message and is answered without an error has
\* had at least one chat message sent to the operator, in every reachable
\* state of the store.
C4_OperatorAlwaysAnswered ==
    ( /\ TELEGRAM_API_URL
      /\ last.op = "telegram"
      /\ last.outcome = "returned"
      /\ last.step = "start" => last.has_message )
    => last.sent >= 1

\* C5: the outbound dispatch is issued only inside a finalize sequence that an
\* operator chat message started by reaching a terminal decision; no step of
\* /incoming-email or /triage, and no chat step that answers /start, finds no
\* session, re-prompts or moves between states, issues it or leaves a handler
\* behind that will.
C5_DispatchOnlyInFinalize ==
    /\ (Issued("send_to_n8n") \/ last.dispatched > 0) =>
          /\ last.op = "telegram"
          /\ last.final_body # <<>>
    /\ (last.step = "start" /\ last.final_body # <<>>) =>
          /\ last.op = "telegram"
          /\ last.has_message
          /\ last.gen_ran
          /\ ~last.gen.raised
          /\ last.decision.type \in DecisionKinds
          /\ last.seen \in {"awaiting_availability", "awaiting_time",
                            "awaiting_reschedule_confirm",
                            "awaiting_reschedule_time"}
    /\ (last.step = "start" /\ last.op = "telegram" /\ last.final_body = <<>>) =>
          /\ ~Issued("send_to_n8n")
          /\ last.dispatched = 0
    /\ \A h \in BagToSet(handlers) :
          (h.dispatched > 0 \/ \E k \in DOMAIN h.todo : h.todo[k].do = "send_to_n8n")
              => (h.op = "telegram" /\ h.final_body # <<>>)

C5_Witness ==
    /\ Issued("send_to_n8n")
    /\ last.op = "telegram"
    /\ last.dispatched = 1
    /\ \E h \in BagToSet(handlers) : h.op = "incoming_email"

\* The reply completion of the step just taken answered.
ReplyCompleted == \E i \in CallAt("chat_reply") : last.calls[i].ok

\* The calls of the summary write-back: what follows the reply completion.
WriteBackAt ==
    { i \in DOMAIN last.calls : \E j \in CallAt("chat_reply") : j < i }
        \ PostsAt

\* C6: a failure of the summary completion, of the summary embedding or of
\* the index upsert does not propagate: whenever the reply completion
\* answered, generate_reply returns exactly the completion's text, /triage
\* answers with it, and a finalize sequence goes on with it.
C6_WriteBackIsolated ==
    (last.gen_ran /\ ReplyCompleted) =>
        /\ ~last.gen.raised
        /\ \A i \in CallAt("chat_reply") :
              last.gen.reply_text = last.calls[i].text
        /\ last.outcome # "raised"
        /\ last.op = "triage" =>
              (last.outcome = "returned" /\ last.response = "reply_text")
        /\ last.op = "telegram" =>
              /\ last.final_body = last.gen.reply_text \o Disclosure
              /\ TELEGRAM_API_URL =>
                    \E i \in CallAt("telegram_send_message") :
                        /\ last.calls[i].what = "final"
                        /\ last.calls[i].text = last.final_body
              /\ (~TELEGRAM_API_URL /\ N8N_SEND_EMAIL_URL) =>
                    \E i \in CallAt("send_to_n8n") :
                        last.calls[i].text = last.final_body

C6_Witness ==
    /\ last.gen_ran
    /\ ReplyCompleted
    /\ \E i \in WriteBackAt :
          last.calls[i].call = "index.upsert" /\ ~last.calls[i].ok
    /\ ~last.gen.raised
    /\ last.gen.reply_text \in ReplyTexts
    /\ last.op = "triage"
    /\ last.response = "reply_text"

\* The retrieval of the step just taken failed: its embedding, or its query.
RetrievalFailedAt ==
    { i \in DOMAIN last.calls :
        /\ ~last.calls[i].ok
        /\ \/ i = 1 /\ last.calls[i].call = "embed_text"
           \/ i = 2 /\ last.calls[i].call = "index.query" }

\* C7: a failure of the query embedding or of the index query does not
\* propagate: the prompt's memory snippets are empty, the reply completion is
\* invoked next, and its text is returned when it answers.
C7_RetrievalFailureAbsorbed ==
    (last.gen_ran /\ RetrievalFailedAt # {}) =>
        /\ last.gen.prompt.memory_snippets = <<>>
        /\ \A i \in RetrievalFailedAt :
              /\ i + 1 \in DOMAIN last.calls
              /\ last.calls[i + 1].call = "chat_reply"
        /\ ReplyCompleted =>
              /\ ~last.gen.raised
              /\ \A i \in CallAt("chat_reply") :
                    last.gen.reply_text = last.calls[i].text

C7_Witness ==
    /\ last.gen_ran
    /\ \E i \in RetrievalFailedAt : last.calls[i].call = "index.query"
    /\ last.gen.prompt.memory_snippets = <<>>
    /\ ReplyCompleted
    /\ ~last.gen.raised
    /\ last.gen.reply_text \in ReplyTexts
    /\ last.outcome = "returned"

\* A chat update with a message was taken up by telegram_webhook, which found
\* the session in state `seen`.
ChatStep(seen) ==
    /\ last.step = "start"
    /\ last.op = "telegram"
    /\ last.has_message
    /\ last.seen = seen

\* The step just taken issued the chat prompt `what`.
Prompted(what) ==
    \E i \in CallAt("telegram_send_message") : last.calls[i].what = what

\* The dispatch of the finalize sequence the step just taken began is issued
\* by this step or is what its handler does next.
DispatchesOnce ==
    \/ /\ last.dispatched = 1
       /\ \E i \in CallAt("send_to_n8n") :
             /\ last.calls[i].to = last.email.from_email
             /\ last.calls[i].ref = last.email.message_id
             /\ last.calls[i].text = last.final_body
    \/ /\ last.dispatched = 0
       /\ ~Issued("send_to_n8n")
       /\ \E h \in BagToSet(handlers) :
             /\ h.chat_id = last.chat_id
             /\ h.final_body = last.final_body
             /\ h.dispatched = 0
             /\ h.todo = << N8nItem(last.email, last.final_body), PopItem >>

\* A finalize sequence that returned issued the dispatch once (when an
\* outbound endpoint is configured) and left no session; one still in flight
\* has issued it at most once and has one dispatch left at most.
OneDispatchThenNoSession ==
    /\ FinalizeReturned =>
          /\ last.dispatched = (IF N8N_SEND_EMAIL_URL THEN 1 ELSE 0)
          /\ last.sent = (IF TELEGRAM_API_URL THEN 1 ELSE 0)
          /\ last.chat_id \notin DOMAIN pending_requests
    /\ \A h \in BagToSet(handlers) :
          h.final_body # <<>> =>
              h.dispatched
                + Cardinality({ k \in DOMAIN h.todo : h.todo[k].do = "send_to_n8n" })
                  = 1

\* C8 (scenario A): an email without a proposed time opens a session in
\* awaiting_availability; "yes" moves it to awaiting_time and composes and
\* dispatches nothing; "3pm" then starts a finalize sequence for the decision
\* accept_with_time with time "3pm", which (its collaborators answering)
\* issues one dispatch for that email and leaves no session.
C8_ScenarioA ==
    /\ ( /\ last.step = "start"
         /\ last.op = "incoming_email"
         /\ Truthy(TELEGRAM_OWNER_CHAT_ID) ) =>
          /\ last.chat_id \in DOMAIN pending_requests
          /\ pending_requests[last.chat_id].state = "awaiting_availability"
          /\ pending_requests[last.chat_id].email = last.email
          /\ ~Truthy(Get(last.email, "proposed_time"))
          /\ ~last.gen_ran
          /\ ~Issued("send_to_n8n")
    /\ (ChatStep("awaiting_availability") /\ last.text_raw = T_yes) =>
          /\ last.chat_id \in DOMAIN pending_requests
          /\ pending_requests[last.chat_id].state = "awaiting_time"
          /\ pending_requests[last.chat_id].trail
                = << [state |-> "awaiting_availability", text |-> T_yes] >>
          /\ ~last.gen_ran
          /\ last.calls = IF TELEGRAM_API_URL
                          THEN << Post("telegram_send_message", last.chat_id,
                                       "ask_time", <<>>, <<>>) >>
                          ELSE << >>
          /\ last.dispatched = 0
          /\ last.removed = {}
    /\ ( /\ ChatStep("awaiting_time")
         /\ last.trail = << [state |-> "awaiting_availability", text |-> T_yes] >>
         /\ last.text_raw = T_3pm ) =>
          /\ last.gen_ran
          /\ last.decision = [type |-> "accept_with_time", time |-> T_3pm]
          /\ last.gen.prompt.decision_block
                = << "\nYour explicit decision / instructions:\n----------------\n",
                     "I am available for this meeting at: ", "3", "p", "m", ".",
                     "\n" >>
          /\ last.gen.raised => last.outcome = "raised"
          /\ ~last.gen.raised =>
                /\ last.final_body = last.gen.reply_text \o Disclosure
                /\ N8N_SEND_EMAIL_URL => DispatchesOnce
                /\ last.outcome = "returned" =>
                      last.chat_id \notin DOMAIN pending_requests
    /\ OneDispatchThenNoSession

C8_Witness ==
    /\ ChatStep("awaiting_time")
    /\ last.trail = << [state |-> "awaiting_availability", text |-> T_yes] >>
    /\ last.text_raw = T_3pm
    /\ last.decision = [type |-> "accept_with_time", time |-> T_3pm]
    /\ ~last.gen.raised
    /\ last.dispatched = 1
    /\ Issued("send_to_n8n")

\* The operator texts of the model that hold "yes", and those that hold "no"
\* and no "yes", whatever the case of their letters.
YesTexts    == {T_yes, T_yesorno}
NoOnlyTexts == {T_no, T_nothanks}

\* C9 (scenario B): in awaiting_availability "no" moves the session to
\* awaiting_reschedule_confirm; a second "no" then starts a finalize sequence
\* for the decision decline; on that path the session is never in
\* awaiting_reschedule_time and the prompt for a new time is never issued:
\* that prompt and that state come only from a text holding "yes" in
\* awaiting_reschedule_confirm.
C9_ScenarioB ==
    /\ (ChatStep("awaiting_availability") /\ last.text_raw = T_no) =>
          /\ last.chat_id \in DOMAIN pending_requests
          /\ pending_requests[last.chat_id].state = "awaiting_reschedule_confirm"
          /\ pending_requests[last.chat_id].trail
                = << [state |-> "awaiting_availability", text |-> T_no] >>
          /\ ~last.gen_ran
          /\ ~Prompted("ask_new_time")
    /\ ( /\ ChatStep("awaiting_reschedule_confirm")
         /\ last.trail = << [state |-> "awaiting_availability", text |-> T_no] >>
         /\ last.text_raw = T_no ) =>
          /\ last.gen_ran
          /\ last.decision = [type |-> "decline", time |-> None]
          /\ last.gen.prompt.decision_block
                = << "\nYour explicit decision / instructions:\n----------------\n",
                     "I am not available and would like to decline this meeting.",
                     "\n" >>
          /\ ~Prompted("ask_new_time")
          /\ last.chat_id \in DOMAIN pending_requests =>
                pending_requests[last.chat_id].state = "finalizing_decline"
          /\ (~last.gen.raised /\ N8N_SEND_EMAIL_URL) => DispatchesOnce
    /\ Prompted("ask_new_time") =>
          /\ ChatStep("awaiting_reschedule_confirm")
          /\ last.text_raw \in YesTexts
    /\ \A c \in DOMAIN pending_requests :
          LET session == pending_requests[c]
          IN  /\ session.state \in {"awaiting_reschedule_time",
                                    "finalizing_reschedule"} =>
                    /\ Len(session.trail) = 2
                    /\ session.trail[2].state = "awaiting_reschedule_confirm"
                    /\ session.trail[2].text \in YesTexts
              /\ session.state = "finalizing_decline" =>
                    /\ Len(session.trail) = 1
                    /\ session.trail[1].text \in NoOnlyTexts
    /\ FinalizeReturned => last.chat_id \notin DOMAIN pending_requests

C9_Witness ==
    /\ ChatStep("awaiting_reschedule_confirm")
    /\ last.trail = << [state |-> "awaiting_availability", text |-> T_no] >>
    /\ last.text_raw = T_no
    /\ last.decision.type = "decline"
    /\ ~last.gen.raised
    /\ last.dispatched = 1
    /\ Issued("send_to_n8n")

\* C10: in awaiting_availability, a message whose text holds "no" (in any
\* case) and no "yes" moves the session to awaiting_reschedule_confirm, and
\* the step composes no reply, issues no dispatch and removes no session.
C10_NoMovesToRescheduleConfirm ==
    (ChatStep("awaiting_availability") /\ last.text_raw \in NoOnlyTexts) =>
        /\ last.chat_id \in DOMAIN pending_requests
        /\ pending_requests[last.chat_id].state = "awaiting_reschedule_confirm"
        /\ ~last.gen_ran
        /\ ~Issued("chat_reply")
        /\ ~Issued("send_to_n8n")
        /\ last.dispatched = 0
        /\ last.removed = {}
        /\ last.outcome # "raised"

C10_Witness ==
    /\ ChatStep("awaiting_availability")
    /\ last.text_raw = T_nothanks
    /\ pending_requests[last.chat_id].state = "awaiting_reschedule_confirm"
    /\ Prompted("ask_reschedule")

\* C11 as the specification states it: in awaiting_availability a text
\* holding "yes" (also one holding "no" as well) finalizes with kind accept
\* when the email of the session came with a proposed time, and otherwise
\* moves the session to awaiting_time without finalizing; in
\* awaiting_reschedule_confirm "yes" likewise wins over "no".
C11_YesAcceptsWhenTimeKnown ==
    /\ (ChatStep("awaiting_availability") /\ last.text_raw \in YesTexts) =>
          IF /\ last.chat_id \in DOMAIN pending_requests
             /\ Truthy(pending_requests[last.chat_id].proposed_time_received)
          THEN /\ last.gen_ran
               /\ last.decision.type = "accept"
          ELSE /\ ~last.gen_ran
               /\ last.chat_id \in DOMAIN pending_requests
               /\ pending_requests[last.chat_id].state = "awaiting_time"
    /\ (ChatStep("awaiting_reschedule_confirm") /\ last.text_raw \in YesTexts) =>
          /\ ~last.gen_ran
          /\ last.chat_id \in DOMAIN pending_requests
          /\ pending_requests[last.chat_id].state = "awaiting_reschedule_time"

\* C12 as the specification states it: in awaiting_time (awaiting_reschedule_
\* time) a text of any content finalizes with kind accept_with_time
\* (reschedule), and only a non-empty text does.
C12_TimeNeedsNonEmptyText ==
    /\ ChatStep("awaiting_time") =>
          IF last.text_raw # <<>>
          THEN last.gen_ran /\ last.decision.type = "accept_with_time"
          ELSE ~last.gen_ran
    /\ ChatStep("awaiting_reschedule_time") =>
          IF last.text_raw # <<>>
          THEN last.gen_ran /\ last.decision.type = "reschedule"
          ELSE ~last.gen_ran

\* The operator texts of the model that hold neither "yes" nor "no".
NeitherTexts == {T_3pm, T_empty}

\* The one chat message the step issued (none without a chat endpoint).
OnlyPrompt(l, what, text) ==
    l.calls = IF TELEGRAM_API_URL
              THEN << Post("telegram_send_message", l.chat_id, what, text, <<>>) >>
              ELSE << >>

\* The step composed, dispatched and removed nothing.
NothingFinalized(l) ==
    /\ ~l.gen_ran
    /\ l.dispatched = 0
    /\ l.removed = {}
    /\ l.outcome # "raised"

\* C13: in awaiting_availability and awaiting_reschedule_confirm a message
\* whose text holds neither "yes" nor "no" sends the re-prompt of that state
\* and leaves the session store as it was (same session, same email, same
\* state tag), with no completion call and no dispatch.
C13_RepromptLeavesStore ==
    [][ ( /\ last'.step = "start"
          /\ last'.op = "telegram"
          /\ last'.has_message
          /\ last'.seen \in {"awaiting_availability", "awaiting_reschedule_confirm"}
          /\ last'.text_raw \in NeitherTexts )
        => ( /\ pending_requests' = pending_requests
             /\ NothingFinalized(last')
             /\ OnlyPrompt(last',
                           IF last'.seen = "awaiting_availability"
                           THEN "reprompt_availability" ELSE "reprompt_confirm",
                           <<>>) ) ]_vars

C13_Witness ==
    /\ ChatStep("awaiting_reschedule_confirm")
    /\ last.text_raw = T_3pm
    /\ Prompted("reprompt_confirm")
    /\ pending_requests[last.chat_id].state = "awaiting_reschedule_confirm"

\* C14: /start (whatever its case and the blanks around it) is answered with
\* the chat id and leaves the whole session store as it was in every session
\* state, with no completion call and no dispatch.
C14_StartBypassesStateMachine ==
    [][ ( /\ last'.step = "start"
          /\ last'.op = "telegram"
          /\ last'.has_message
          /\ last'.text_raw = T_start )
        => ( /\ pending_requests' = pending_requests
             /\ NothingFinalized(last')
             /\ OnlyPrompt(last', "start", last'.chat_id) ) ]_vars

C14_Witness ==
    /\ last.step = "start"
    /\ last.op = "telegram"
    /\ last.text_raw = T_start
    /\ Prompted("start")
    /\ last.chat_id \in DOMAIN pending_requests
    /\ pending_requests[last.chat_id].state = "awaiting_time"

\* C15: a chat message other than /start for a chat id without a session is
\* answered with the no-active-request notice and changes nothing: no session
\* is created, nothing is composed or dispatched; only the owner chat ever has
\* a session, so this holds for every message of another chat.
C15_NoSessionNoChange ==
    [][ /\ DOMAIN pending_requests' \subseteq {TELEGRAM_OWNER_CHAT_ID}
        /\ ( /\ last'.step = "start"
             /\ last'.op = "telegram"
             /\ last'.has_message
             /\ last'.text_raw # T_start
             /\ last'.chat_id \notin DOMAIN pending_requests )
           => ( /\ pending_requests' = pending_requests
                /\ last'.seen = "none"
                /\ NothingFinalized(last')
                /\ OnlyPrompt(last', "no_active", <<>>) ) ]_vars

C15_Witness ==
    /\ ChatStep("none")
    /\ last.chat_id = <<"2">>
    /\ Prompted("no_active")
    /\ DOMAIN pending_requests = {<<"1">>}

\* C16: an inbound email for the owner chat replaces whatever session the
\* chat has, in any state: afterwards the store holds for that chat the one
\* session with the new email, in awaiting_availability and with no progress;
\* the sessions of other chats are as before and nothing else is kept.
C16_NewEmailOverwrites ==
    [][ ( /\ last'.step = "start"
          /\ last'.op = "incoming_email"
          /\ Truthy(TELEGRAM_OWNER_CHAT_ID) )
        => ( /\ DOMAIN pending_requests'
                  = DOMAIN pending_requests \cup {TELEGRAM_OWNER_CHAT_ID}
             /\ pending_requests'[TELEGRAM_OWNER_CHAT_ID].email = last'.email
             /\ last'.email.message_id \in {<<"m","1">>, <<"m","2">>}
             /\ pending_requests'[TELEGRAM_OWNER_CHAT_ID].state
                  = "awaiting_availability"
             /\ pending_requests'[TELEGRAM_OWNER_CHAT_ID].trail = <<>>
             /\ \A c \in DOMAIN pending_requests \ {TELEGRAM_OWNER_CHAT_ID} :
                   pending_requests'[c] = pending_requests[c]
             /\ NothingFinalized(last')
             /\ OnlyPrompt(last', "new_email", Preview(last'.email.body_text)) ) ]_vars

C16_Witness ==
    /\ last.step = "start"
    /\ last.op = "incoming_email"
    /\ last.seen = "awaiting_reschedule_time"
    /\ pending_requests[last.chat_id].state = "awaiting_availability"
    /\ pending_requests[last.chat_id].trail = <<>>
    /\ pending_requests[last.chat_id].email = last.email

AwaitingTags ==
    {"awaiting_availability", "awaiting_time", "awaiting_reschedule_confirm",
     "awaiting_reschedule_time"}
FinalizingTags ==
    {"finalizing_accept", "finalizing_reschedule", "finalizing_decline"}

\* C17 as the specification states it: every stored session has one of the
\* four awaiting tags; no finalizing tag is ever stored.
C17_OnlyAwaitingTags ==
    \A c \in DOMAIN pending_requests :
        pending_requests[c].state \in AwaitingTags

\* The finalizing tag telegram_webhook stores for a decision kind.
TagOf(kind) ==
    IF kind \in {"accept", "accept_with_time"} THEN "finalizing_accept"
    ELSE IF kind = "reschedule" THEN "finalizing_reschedule"
    ELSE "finalizing_decline"

\* C17, as the code keeps the tags: every stored session has one of the four
\* awaiting tags or one of the three finalizing tags; the finalizing tag of
\* the decision is stored by the step that starts the finalize sequence and
\* stays until the sequence returns, which removes the session.
C17_AwaitingOrFinalizingTags ==
    /\ \A c \in DOMAIN pending_requests :
          pending_requests[c].state \in AwaitingTags \cup FinalizingTags
    /\ ( /\ last.step = "start"
         /\ last.op = "telegram"
         /\ last.gen_ran
         /\ last.chat_id \in DOMAIN pending_requests ) =>
          /\ last.seen \in AwaitingTags
          /\ pending_requests[last.chat_id].state = TagOf(last.decision.type)
    /\ (last.step = "start" /\ last.op = "telegram" /\ last.seen \in FinalizingTags) =>
          /\ ~last.gen_ran
          /\ pending_requests[last.chat_id].state = last.seen
    /\ FinalizeReturned => last.chat_id \notin DOMAIN pending_requests

\* A finalizing tag is stored while nothing is in flight: the finalize
\* sequence that stored it has failed.
C17_Witness ==
    /\ handlers = EmptyBag
    /\ \E c \in DOMAIN pending_requests :
          pending_requests[c].state = "finalizing_reschedule"

\* /triage alone, with senders of every shape and every answer of the
\* collaborators of generate_reply.
NextNamespace ==
    \E data \in SenderPayloads : Triage(data, Externals, OneAtATime)

SpecNamespace == Init /\ [][NextNamespace]_vars

\* The namespace expected for the senders generate_reply is run with.
ExpectedNamespace(sender) ==
    IF sender = <<" ","A","l","@","X"," ">> THEN <<"a","l","@","x">>
    ELSE <<"u","n","k","n","o","w","n">>

\* C18: derive_namespace returns the sender trimmed and lower-cased, and
\* "unknown" for a missing, empty or blank sender, whatever the state; the
\* index query and the index upsert of one generate_reply call both use that
\* namespace.
C18_OneNamespacePerSender ==
    /\ derive_namespace(None) = <<"u","n","k","n","o","w","n">>
    /\ derive_namespace(<<>>) = <<"u","n","k","n","o","w","n">>
    /\ derive_namespace(<<" "," ">>) = <<"u","n","k","n","o","w","n">>
    /\ derive_namespace(<<" ","A","l","@","X"," ">>) = <<"a","l","@","x">>
    /\ last.gen_ran =>
          /\ last.gen.namespace = ExpectedNamespace(last.gen.prompt.sender)
          /\ \A i \in CallAt("index.query") \cup CallAt("index.upsert") :
                last.calls[i].ns = ExpectedNamespace(last.gen.prompt.sender)

C18_Witness ==
    /\ last.gen_ran
    /\ last.gen.prompt.sender = <<" ","A","l","@","X"," ">>
    /\ \E i \in CallAt("index.query") : last.calls[i].ns = <<"a","l","@","x">>
    /\ \E i \in CallAt("index.upsert") : last.calls[i].ns = <<"a","l","@","x">>

\* The calls `name` among those of observation l.
CallsOf(l, name) == { i \in DOMAIN l.calls : l.calls[i].call = name }

\* A chat step that started a finalize sequence.
StartsFinalize(l) ==
    /\ l.step = "start"
    /\ l.op = "telegram"
    /\ l.gen_ran

\* C19: for each session the reply completion is called and the dispatch is
\* issued at most once under any interleaving of the chat handlers: a
\* finalize sequence starts only from a session with an awaiting tag and
\* stores a finalizing tag in the same step, before it first suspends; a
\* session with a finalizing tag starts no finalize sequence and never gets
\* an awaiting tag back (only the session of a new email takes its place);
\* and one finalize sequence calls the completion once and issues one
\* dispatch at most.
C19_AtMostOncePerSession ==
    [][ /\ StartsFinalize(last') =>
              /\ last'.chat_id \in DOMAIN pending_requests
              /\ pending_requests[last'.chat_id].state \in AwaitingTags
              /\ Cardinality(CallsOf(last', "chat_reply")) = 1
              /\ last'.chat_id \in DOMAIN pending_requests' =>
                    pending_requests'[last'.chat_id].state \in FinalizingTags
        /\ \A c \in DOMAIN pending_requests :
              pending_requests[c].state \in FinalizingTags =>
                  /\ ~(StartsFinalize(last') /\ last'.chat_id = c)
                  /\ c \in DOMAIN pending_requests' =>
                        \/ pending_requests'[c] = pending_requests[c]
                        \/ /\ last'.op = "incoming_email"
                           /\ pending_requests'[c].state = "awaiting_availability"
                           /\ pending_requests'[c].trail = <<>>
        /\ Cardinality(CallsOf(last', "send_to_n8n")) <= 1
        /\ last'.dispatched <= 1
        /\ CallsOf(last', "send_to_n8n") # {} => last'.dispatched = 1
        /\ \A h \in BagToSet(handlers') :
              h.dispatched
                + Cardinality({ k \in DOMAIN h.todo : h.todo[k].do = "send_to_n8n" })
                  <= 1 ]_vars

\* A second operator message is handled while the finalize sequence of the
\* first is suspended on one of its posts, and starts nothing.
C19_Witness ==
    /\ last.step = "start"
    /\ last.op = "telegram"
    /\ last.has_message
    /\ last.seen = "finalizing_accept"
    /\ last.text_raw = T_3pm
    /\ ~last.gen_ran
    /\ \E h \in BagToSet(handlers) :
          /\ h.op = "telegram"
          /\ h.chat_id = last.chat_id
          /\ h.final_body # <<>>

\* C20 as the specification states it: a finalize sequence that completes
\* while the chat has a new session (one in awaiting_availability, stored by
\* an inbound email that arrived while the sequence was suspended) leaves
\* that session in the store.
C20_FinalizeKeepsNewSession ==
    [][ ( /\ last'.step = "resume"
          /\ last'.op = "telegram"
          /\ last'.outcome = "returned"
          /\ last'.final_body # <<>>
          /\ last'.chat_id \in DOMAIN pending_requests
          /\ pending_requests[last'.chat_id].state = "awaiting_availability" )
        => ( /\ last'.chat_id \in DOMAIN pending_requests'
             /\ pending_requests'[last'.chat_id]
                  = pending_requests[last'.chat_id] ) ]_vars

====
